---- MODULE Spec2Model ----
(***************************************************************************)
(* Model of the memory-mongo MCP server (src/src/memory-mongo/index.ts,    *)
(* lines 400-971; lines 1-399 hold an earlier copy of the same program     *)
(* with nine tools and the same dispatcher).                               *)
(*                                                                         *)
(* The program is a protocol adapter: a call-tool handler (the Dispatcher) *)
(* routes a tool call to one method of KnowledgeGraphManager (the Facade), *)
(* which issues one HTTP request through an axios client and unwraps the   *)
(* reply.  The handler suspends at the await of the HTTP call; several     *)
(* invocations may be suspended at once.                                   *)
(***************************************************************************)
EXTENDS Bags, FiniteSets, Integers, Sequences, TLC

VARIABLES
    env,          \* process.env: MEMORY_API_KEY, MEMORY_API_URL
    pc,           \* "load" | "main" | "running" | "exiting" | "exited"
    API_KEY,      \* module constant resolved at load
    API_BASE_URL, \* module constant resolved at load
    api,          \* KnowledgeGraphManager.api: the axios instance defaults
    inflight,     \* bag of invocations suspended at their await
    response,     \* the response the transport is writing, or NoResponse
    stderr,       \* diagnostics written so far
    exitCode,     \* process exit status, -1 while the process lives
    store,        \* the remote store: names of the entities it holds
    acked         \* history: names a delete_entities response reported deleted

vars == <<env, pc, API_KEY, API_BASE_URL, api, inflight, response, stderr, exitCode,
          store, acked>>

(***************************************************************************)
(* Bounds                                                                  *)
(***************************************************************************)
\* Largest number of invocations suspended on the network at one time.
MaxInFlight == 2

(***************************************************************************)
(* JavaScript values                                                       *)
(***************************************************************************)
Undefined == [t |-> "undefined"]
Str(s)    == [t |-> "string", v |-> s]
Num(n)    == [t |-> "number", v |-> n]
Bool(b)   == [t |-> "boolean", v |-> b]
Arr(s)    == [t |-> "array", v |-> s]
Obj(f)    == [t |-> "object", v |-> f]
\* The string JSON.stringify(v, null, 2) returns for a JSON value v.
JsonText(v) == [t |-> "string", json |-> v, indent |-> 2]

NoFields == [k \in {} |-> Undefined]

\* JavaScript truthiness (used by `!x`, `x || y`, `x ? a : b`).
Truthy(v) ==
    CASE v.t = "undefined" -> FALSE
      [] v.t = "null"      -> FALSE
      [] v.t = "number"    -> v.v # 0
      [] v.t = "boolean"   -> v.v
      [] v.t = "string"    -> IF "json" \in DOMAIN v THEN TRUE ELSE v.v # ""
      [] OTHER             -> TRUE

\* o.f for a value o that is neither undefined nor null.
Prop(o, f) ==
    IF o.t = "object" /\ f \in DOMAIN o.v THEN o.v[f] ELSE Undefined

\* Error objects.  cls is the constructor; isError says whether the thrown
\* value is an instance of Error; response is the HTTP response attached to
\* an AxiosError, or Undefined.
MkError(cls, msg) == [cls |-> cls, isError |-> TRUE, message |-> msg, response |-> Undefined]
NewError(msg)     == MkError("Error", msg)
TypeErrorReading(f) ==
    MkError("TypeError", "Cannot read properties of undefined (reading '" \o f \o "')")
URIError == MkError("URIError", "URI malformed")

\* Number to decimal string, for the numbers the model uses.
ToStr(n) ==
    CASE n = 0 -> "0" [] n = 1 -> "1" [] n = 2 -> "2" [] n = 3 -> "3"
      [] n = 4 -> "4" [] n = 5 -> "5" [] n = 6 -> "6"
      [] n = 200 -> "200" [] n = 400 -> "400" [] n = 404 -> "404" [] n = 500 -> "500"
      [] OTHER -> "NaN"

\* A string holding a lone surrogate (JSON "\ud800"), which the JSON parser
\* accepts and encodeURIComponent rejects.
LoneSurrogate == "<U+D800>"

\* String(v) as a template literal or encodeURIComponent applies it; an
\* array is its elements joined by commas, with undefined and null elements
\* as empty strings.
RECURSIVE StringOf(_)
RECURSIVE JoinElements(_)
JoinElements(s) ==
    IF s = <<>> THEN ""
    ELSE LET h == IF Head(s).t \in {"undefined", "null"} THEN "" ELSE StringOf(Head(s))
         IN  IF Len(s) = 1 THEN h ELSE h \o "," \o JoinElements(Tail(s))

StringOf(v) ==
    CASE v.t = "undefined" -> "undefined"
      [] v.t = "null"      -> "null"
      [] v.t = "number"    -> ToStr(v.v)
      [] v.t = "boolean"   -> IF v.v THEN "true" ELSE "false"
      [] v.t = "string"    -> v.v
      [] v.t = "array"     -> JoinElements(v.v)
      [] OTHER             -> "[object Object]"

\* encodeURIComponent: percent-encodes reserved characters, throws URIError
\* on a malformed string.
encodeURIComponent(v) ==
    LET s == StringOf(v) IN
    IF s = LoneSurrogate THEN [thrown |-> TRUE, error |-> URIError]
    ELSE [thrown |-> FALSE,
          value |-> CASE s = "Person 1"   -> "Person%201"
                      [] s = "likes coffee" -> "likes%20coffee"
                      [] s = "2024-01-01T00:00:00Z" -> "2024-01-01T00%3A00%3A00Z"
                      [] s = "2024-12-31T00:00:00Z" -> "2024-12-31T00%3A00%3A00Z"
                      [] OTHER -> s]

(***************************************************************************)
(* Configuration and the axios client                                      *)
(***************************************************************************)
DefaultBaseUrl == "http://localhost:3000"

\* process.env.MEMORY_API_URL || 'http://localhost:3000'
ResolveBaseUrl(e) == IF Truthy(e.MEMORY_API_URL) THEN e.MEMORY_API_URL.v ELSE DefaultBaseUrl

\* Variant of the constructor that ignores the resolved base address.
constructor_IgnoresBase(key, base) ==
    [baseURL |-> "http://localhost:3000",
     headers |-> << <<"Authorization", "Bearer " \o key>>,
                    <<"Content-Type", "application/json">> >>]

\* axios.create({baseURL, headers}) in the KnowledgeGraphManager constructor.
\* Headers are kept as a sequence of <<name, value>> pairs.
constructor(key, base) ==
    [baseURL |-> base,
     headers |-> << <<"Authorization", "Bearer " \o key>>,
                    <<"Content-Type", "application/json">> >>]

\* An HTTP request as the axios instance sends it: the instance defaults
\* merged with the per-call method, url and body.  A url is a path and a
\* sequence of <<name, value>> query parameters.
Request(client, method, path, query, body) ==
    [method |-> method, baseURL |-> client.baseURL, headers |-> client.headers,
     path |-> path, query |-> query, body |-> body]

(***************************************************************************)
(* The remote service's replies, as axios sees them                        *)
(***************************************************************************)
NoReply == [kind |-> "none"]
HttpResponse(status, data) == [kind |-> "response", status |-> status, data |-> data]
NetworkFailure(msg)        == [kind |-> "failed", message |-> msg]

AxiosError(msg, resp) ==
    [cls |-> "AxiosError", isError |-> TRUE, message |-> msg, response |-> resp]

\* What `await this.api.get/post/delete(...)` yields for a reply: axios
\* resolves with the response on a 2xx status (its default validateStatus)
\* and rejects with an AxiosError otherwise.
AxiosSettle(reply) ==
    IF reply.kind = "response"
    THEN IF reply.status >= 200 /\ reply.status < 300
         THEN [thrown |-> FALSE, value |-> Obj([status |-> Num(reply.status), data |-> reply.data])]
         ELSE [thrown |-> TRUE,
               error |-> AxiosError("Request failed with status code " \o ToStr(reply.status),
                                    Obj([status |-> Num(reply.status), data |-> reply.data]))]
    ELSE [thrown |-> TRUE, error |-> AxiosError(reply.message, Undefined)]

(***************************************************************************)
(* KnowledgeGraphManager: the Facade                                       *)
(***************************************************************************)
isAxiosError(error) == error.cls = "AxiosError"

\* x?.f : undefined when x is undefined or null.
OptProp(x, f) == IF x.t \in {"undefined", "null"} THEN Undefined ELSE Prop(x, f)

\* Variant of handleError that drops the server-supplied message.
handleError_IgnoresBody(error) ==
    IF isAxiosError(error)
    THEN NewError(error.message)
    ELSE IF error.isError
    THEN error
    ELSE NewError("An unknown error occurred")

\* Variant of handleError that throws the message itself, a string and not
\* an Error, for a failed HTTP call.
handleError_ThrowsText(error) ==
    IF isAxiosError(error)
    THEN LET apiError == OptProp(error.response, "data")
             msg      == OptProp(apiError, "error")
         IN  [cls |-> "string", isError |-> FALSE, response |-> Undefined,
              message |-> IF Truthy(msg) THEN StringOf(msg) ELSE error.message]
    ELSE IF error.isError
    THEN error
    ELSE NewError("An unknown error occurred")

\* Variant of handleError that reads the body of the response without
\* the optional chaining, so an AxiosError without a response raises a
\* TypeError in its place.
handleError_NeedsResponse(error) ==
    IF isAxiosError(error)
    THEN IF error.response.t = "undefined"
         THEN TypeErrorReading("data")
         ELSE LET apiError == OptProp(error.response, "data")
                  msg      == OptProp(apiError, "error")
              IN  NewError(IF Truthy(msg) THEN StringOf(msg) ELSE error.message)
    ELSE IF error.isError
    THEN error
    ELSE NewError("An unknown error occurred")

\* Variant of handleError that reports every failure that is not an
\* AxiosError with the generic message.
handleError_GenericForOthers(error) ==
    IF isAxiosError(error)
    THEN LET apiError == OptProp(error.response, "data")
             msg      == OptProp(apiError, "error")
         IN  NewError(IF Truthy(msg) THEN StringOf(msg) ELSE error.message)
    ELSE NewError("An unknown error occurred")

\* handleError always throws; the operator yields the Error it throws.
handleError(error) ==
    IF isAxiosError(error)
    THEN LET apiError == OptProp(error.response, "data")
             msg      == OptProp(apiError, "error")
         IN  NewError(IF Truthy(msg) THEN StringOf(msg) ELSE error.message)
    ELSE IF error.isError
    THEN error
    ELSE NewError("An unknown error occurred")

\* v.f1.f2... : a TypeError as soon as a property of undefined/null is read.
RECURSIVE ReadPath(_, _)
ReadPath(v, path) ==
    IF path = <<>> THEN [thrown |-> FALSE, value |-> v]
    ELSE IF v.t \in {"undefined", "null"}
         THEN [thrown |-> TRUE, error |-> TypeErrorReading(Head(path))]
         ELSE ReadPath(Prop(v, Head(path)), Tail(path))

Issue(req) == [thrown |-> FALSE, request |-> req]
Raise(err) == [thrown |-> TRUE, error |-> err]

\* A Facade method is modelled by what it does up to its await (`begin`: the
\* request it issues, or the error raised while building it), the property
\* path it reads from the axios response afterwards (`unwrap`), and whether
\* it returns nothing (`void`).
Method(begin, unwrap, void) == [begin |-> begin, unwrap |-> unwrap, void |-> void]

checkHealth(client) ==
    Method(Issue(Request(client, "GET", "/health", <<>>, Undefined)),
           <<"data", "data">>, FALSE)

\* Variant of createEntities that returns the whole data object of the
\* reply in place of its `created` member.
createEntities_ReturnsData(client, entities) ==
    Method(Issue(Request(client, "POST", "/api/entities", <<>>, Obj([entities |-> entities]))),
           <<"data", "data">>, FALSE)

createEntities(client, entities) ==
    Method(Issue(Request(client, "POST", "/api/entities", <<>>, Obj([entities |-> entities]))),
           <<"data", "data", "created">>, FALSE)

createRelations(client, relations) ==
    Method(Issue(Request(client, "POST", "/api/relations", <<>>, Obj([relations |-> relations]))),
           <<"data", "data", "created">>, FALSE)

addObservations(client, observations) ==
    Method(Issue(Request(client, "POST", "/api/observations", <<>>, Obj([observations |-> observations]))),
           <<"data", "data", "updates">>, FALSE)

deleteEntities(client, entityNames) ==
    Method(Issue(Request(client, "DELETE", "/api/entities", <<>>, Obj([entityNames |-> entityNames]))),
           <<>>, TRUE)

\* Variant of deleteObservations that posts to the observations endpoint.
deleteObservations_Posts(client, deletions) ==
    Method(Issue(Request(client, "POST", "/api/observations", <<>>, Obj([deletions |-> deletions]))),
           <<>>, TRUE)

deleteObservations(client, deletions) ==
    Method(Issue(Request(client, "DELETE", "/api/observations", <<>>, Obj([deletions |-> deletions]))),
           <<>>, TRUE)

deleteRelations(client, relations) ==
    Method(Issue(Request(client, "DELETE", "/api/relations", <<>>, Obj([relations |-> relations]))),
           <<>>, TRUE)

\* Variant of readGraph that returns the reply's envelope in place of the
\* graph it carries.
readGraph_ReturnsEnvelope(client) ==
    Method(Issue(Request(client, "GET", "/api/graph", <<>>, Undefined)),
           <<"data">>, FALSE)

readGraph(client) ==
    Method(Issue(Request(client, "GET", "/api/graph", <<>>, Undefined)),
           <<"data", "data">>, FALSE)

searchNodes(client, query) ==
    LET q == encodeURIComponent(query) IN
    Method(IF q.thrown THEN Raise(q.error)
           ELSE Issue(Request(client, "GET", "/api/search", << <<"query", q.value>> >>, Undefined)),
           <<"data", "data", "graph">>, FALSE)

openNodes(client, names) ==
    Method(Issue(Request(client, "POST", "/api/nodes", <<>>, Obj([names |-> names]))),
           <<"data", "data", "graph">>, FALSE)

getPatterns(client, category) ==
    Method(Issue(Request(client, "GET", "/api/patterns",
                         IF Truthy(category) THEN << <<"category", StringOf(category)>> >> ELSE <<>>,
                         Undefined)),
           <<"data", "data", "patterns">>, FALSE)

getTemporalGraph(client, startDate, endDate) ==
    LET s == encodeURIComponent(startDate)
        e == encodeURIComponent(endDate)
    IN  Method(IF s.thrown THEN Raise(s.error)
               ELSE IF e.thrown THEN Raise(e.error)
               ELSE Issue(Request(client, "GET", "/api/graph/temporal",
                                  << <<"startDate", s.value>>, <<"endDate", e.value>> >>, Undefined)),
               <<"data", "data", "graph">>, FALSE)

\* Variant of findPath that appends maxDepth whether or not it was given.
findPath_AlwaysSendsDepth(client, from, to, maxDepth) ==
    LET f == encodeURIComponent(from)
        t == encodeURIComponent(to)
    IN  Method(IF f.thrown THEN Raise(f.error)
               ELSE IF t.thrown THEN Raise(t.error)
               ELSE Issue(Request(client, "GET", "/api/graph/path",
                                  << <<"from", f.value>>, <<"to", t.value>>,
                                     <<"maxDepth", StringOf(maxDepth)>> >>,
                                  Undefined)),
               <<"data", "data", "path">>, FALSE)

findPath(client, from, to, maxDepth) ==
    LET f == encodeURIComponent(from)
        t == encodeURIComponent(to)
    IN  Method(IF f.thrown THEN Raise(f.error)
               ELSE IF t.thrown THEN Raise(t.error)
               ELSE Issue(Request(client, "GET", "/api/graph/path",
                                  IF Truthy(maxDepth)
                                  THEN << <<"from", f.value>>, <<"to", t.value>>,
                                          <<"maxDepth", StringOf(maxDepth)>> >>
                                  ELSE << <<"from", f.value>>, <<"to", t.value>> >>,
                                  Undefined)),
               <<"data", "data", "path">>, FALSE)

\* Variant of Complete in which a method that returns nothing reads the
\* success flag of the reply and fails when it is false.
Complete_ChecksSuccess(m, reply) ==
    LET r == AxiosSettle(reply) IN
    IF r.thrown THEN Raise(handleError(r.error))
    ELSE IF m.void
    THEN IF Prop(Prop(r.value, "data"), "success") = Bool(FALSE)
         THEN Raise(NewError(StringOf(Prop(Prop(r.value, "data"), "error"))))
         ELSE [thrown |-> FALSE, value |-> Undefined]
    ELSE LET p == ReadPath(r.value, m.unwrap) IN
         IF p.thrown THEN Raise(handleError(p.error)) ELSE p

\* The part of a Facade method after its await: the value it returns or the
\* Error it throws (everything raised inside its try goes through
\* handleError).
Complete(m, reply) ==
    LET r == AxiosSettle(reply) IN
    IF r.thrown THEN Raise(handleError(r.error))
    ELSE IF m.void THEN [thrown |-> FALSE, value |-> Undefined]
    ELSE LET p == ReadPath(r.value, m.unwrap) IN
         IF p.thrown THEN Raise(handleError(p.error)) ELSE p

(***************************************************************************)
(* Tool Registry and Dispatcher                                            *)
(***************************************************************************)
\* The names the list-tools handler returns, in order.
ToolRegistry ==
    << "check_health", "create_entities", "create_relations", "add_observations",
       "delete_entities", "delete_observations", "delete_relations", "read_graph",
       "search_nodes", "open_nodes", "get_patterns", "get_temporal_graph", "find_path" >>

ToolNames == { ToolRegistry[i] : i \in DOMAIN ToolRegistry }

\* The fields each tool's inputSchema requires.
RequiredFields(name) ==
    CASE name = "create_entities"     -> <<"entities">>
      [] name = "create_relations"    -> <<"relations">>
      [] name = "add_observations"    -> <<"observations">>
      [] name = "delete_entities"     -> <<"entityNames">>
      [] name = "delete_observations" -> <<"deletions">>
      [] name = "delete_relations"    -> <<"relations">>
      [] name = "search_nodes"        -> <<"query">>
      [] name = "open_nodes"          -> <<"names">>
      [] name = "get_temporal_graph"  -> <<"startDate", "endDate">>
      [] name = "find_path"           -> <<"from", "to">>
      [] OTHER                        -> <<>>

\* The descriptors the list-tools handler returns.
ToolDescriptors ==
    [i \in DOMAIN ToolRegistry |->
        [name |-> ToolRegistry[i], required |-> RequiredFields(ToolRegistry[i])]]

NoMethod == [unknown |-> TRUE]

\* The switch of the call-tool handler: the Facade method a name is routed
\* to, with the fields it extracts from the argument object.
Route(client, name, args) ==
    CASE name = "check_health"        -> checkHealth(client)
      [] name = "create_entities"     -> createEntities(client, Prop(args, "entities"))
      [] name = "create_relations"    -> createRelations(client, Prop(args, "relations"))
      [] name = "add_observations"    -> addObservations(client, Prop(args, "observations"))
      [] name = "delete_entities"     -> deleteEntities(client, Prop(args, "entityNames"))
      [] name = "delete_observations" -> deleteObservations(client, Prop(args, "deletions"))
      [] name = "delete_relations"    -> deleteRelations(client, Prop(args, "relations"))
      [] name = "read_graph"          -> readGraph(client)
      [] name = "search_nodes"        -> searchNodes(client, Prop(args, "query"))
      [] name = "open_nodes"          -> openNodes(client, Prop(args, "names"))
      [] name = "get_patterns"        -> getPatterns(client, Prop(args, "category"))
      [] name = "get_temporal_graph"  -> getTemporalGraph(client, Prop(args, "startDate"),
                                                          Prop(args, "endDate"))
      [] name = "find_path"           -> findPath(client, Prop(args, "from"), Prop(args, "to"),
                                                  Prop(args, "maxDepth"))
      [] OTHER                        -> NoMethod

\* JSON.stringify(v, null, 2): undefined for undefined, else a string.
Stringify(v) == IF v.t = "undefined" THEN Undefined ELSE JsonText(v)

TextContent(text) == << [type |-> "text", text |-> text] >>

\* The value a case of the switch returns once its Facade method returned v.
SuccessEnvelope(name, v) ==
    CASE name = "delete_entities"     -> [content |-> TextContent(Str("Entities deleted successfully"))]
      [] name = "delete_observations" -> [content |-> TextContent(Str("Observations deleted successfully"))]
      [] name = "delete_relations"    -> [content |-> TextContent(Str("Relations deleted successfully"))]
      [] OTHER                        -> [content |-> TextContent(Stringify(v))]

\* Variant of the catch clause that forgets to mark the envelope.
CatchEnvelope_Unflagged(error) ==
    IF error.isError
    THEN [content |-> TextContent(Str("Error: " \o error.message))]
    ELSE [content |-> TextContent(Str("An unknown error occurred"))]

\* The catch clause of the call-tool handler.
CatchEnvelope(error) ==
    IF error.isError
    THEN [content |-> TextContent(Str("Error: " \o error.message)), isError |-> TRUE]
    ELSE [content |-> TextContent(Str("An unknown error occurred")), isError |-> TRUE]

\* How a handler invocation ends: it returns a result, or its promise
\* rejects (the failure leaves the handler).
Returned(result) == [kind |-> "result", result |-> result]
Rejected(error)  == [kind |-> "rejected", error |-> error]
Suspended(req)   == [kind |-> "await", request |-> req]

\* Variant of the handler entry without the argument check.
CallToolEnter_Unguarded(client, name, args) ==
    LET m == Route(client, name, args) IN
    IF m = NoMethod
    THEN Returned(CatchEnvelope(NewError("Unknown tool: " \o name)))
    ELSE IF m.begin.thrown
    THEN Returned(CatchEnvelope(handleError(m.begin.error)))
    ELSE Suspended(m.begin.request)

\* Variant of the handler entry that also refuses an empty argument object.
CallToolEnter_RejectsEmpty(client, name, args) ==
    IF ~Truthy(args) \/ DOMAIN args.v = {}
    THEN Rejected(NewError("No arguments provided for tool: " \o name))
    ELSE LET m == Route(client, name, args) IN
         IF m = NoMethod
         THEN Returned(CatchEnvelope(NewError("Unknown tool: " \o name)))
         ELSE IF m.begin.thrown
         THEN Returned(CatchEnvelope(handleError(m.begin.error)))
         ELSE Suspended(m.begin.request)

\* Variant of the handler entry that checks the required fields of the
\* tool's inputSchema before it dispatches.
CallToolEnter_Validating(client, name, args) ==
    IF ~Truthy(args)
    THEN Rejected(NewError("No arguments provided for tool: " \o name))
    ELSE LET m == Route(client, name, args) IN
         IF m = NoMethod
         THEN Returned(CatchEnvelope(NewError("Unknown tool: " \o name)))
         ELSE IF \E i \in DOMAIN RequiredFields(name) :
                    Prop(args, RequiredFields(name)[i]).t \notin {"string", "array"}
         THEN Returned(CatchEnvelope(NewError("Invalid arguments for tool: " \o name)))
         ELSE IF m.begin.thrown
         THEN Returned(CatchEnvelope(handleError(m.begin.error)))
         ELSE Suspended(m.begin.request)

\* Variant of the handler entry that examines the tool name before the
\* argument object.
CallToolEnter_NameFirst(client, name, args) ==
    LET m == Route(client, name, args) IN
    IF m = NoMethod
    THEN Returned(CatchEnvelope(NewError("Unknown tool: " \o name)))
    ELSE IF ~Truthy(args)
    THEN Rejected(NewError("No arguments provided for tool: " \o name))
    ELSE IF m.begin.thrown
    THEN Returned(CatchEnvelope(handleError(m.begin.error)))
    ELSE Suspended(m.begin.request)

\* The call-tool handler from its entry to its first await or its end.
CallToolEnter(client, name, args) ==
    IF ~Truthy(args)
    THEN Rejected(NewError("No arguments provided for tool: " \o name))
    ELSE LET m == Route(client, name, args) IN
         IF m = NoMethod
         THEN Returned(CatchEnvelope(NewError("Unknown tool: " \o name)))
         ELSE IF m.begin.thrown
         THEN Returned(CatchEnvelope(handleError(m.begin.error)))
         ELSE Suspended(m.begin.request)

\* The call-tool handler from the settlement of its HTTP call to its end.
CallToolResume(client, name, args, reply) ==
    LET c == Complete(Route(client, name, args), reply) IN
    IF c.thrown THEN Returned(CatchEnvelope(c.error))
    ELSE Returned(SuccessEnvelope(name, c.value))

(***************************************************************************)
(* Inputs: environments, tool calls and remote replies                     *)
(***************************************************************************)
Environments ==
    [MEMORY_API_KEY : {Undefined, Str(""), Str("secret-1")},
     MEMORY_API_URL : {Undefined, Str(""), Str("https://memory.example")}]

Person1  == Obj([name |-> Str("Person1"), entityType |-> Str("person"),
                 observations |-> Arr(<<Str("likes coffee")>>)])
Company1 == Obj([name |-> Str("Company1"), entityType |-> Str("organization"),
                 observations |-> Arr(<<>>)])
WorksAt  == Obj([from |-> Str("Person1"), to |-> Str("Company1"), relationType |-> Str("works_at")])
Graph1   == Obj([entities |-> Arr(<<Person1, Company1>>), relations |-> Arr(<<WorksAt>>)])

\* A name no case of the switch matches.
UnregisteredName == "drop_database"

CallNames == ToolNames \cup {UnregisteredName}

\* The argument objects a host sends: absent, empty, and per tool the
\* declared fields (with a malformed string where a field is url-encoded).
ArgChoices(name) ==
    {Undefined, Obj(NoFields)} \cup
    CASE name = "create_entities"     -> {Obj([entities |-> Arr(<<Person1, Company1>>)])}
      [] name = "create_relations"    -> {Obj([relations |-> Arr(<<WorksAt>>)])}
      [] name = "add_observations"    ->
            {Obj([observations |-> Arr(<<Obj([entityName |-> Str("Person1"),
                                              contents |-> Arr(<<Str("likes tea")>>)])>>)])}
      [] name = "delete_entities"     -> {Obj([entityNames |-> Arr(<<Str("Person1")>>)])}
      [] name = "delete_observations" ->
            {Obj([deletions |-> Arr(<<Obj([entityName |-> Str("Person1"),
                                           observations |-> Arr(<<Str("likes coffee")>>)])>>)])}
      [] name = "delete_relations"    -> {Obj([relations |-> Arr(<<WorksAt>>)])}
      [] name = "search_nodes"        -> {Obj([query |-> Str("likes coffee")]),
                                          Obj([query |-> Str(LoneSurrogate)])}
      [] name = "open_nodes"          -> {Obj([names |-> Arr(<<Str("Person1")>>)])}
      [] name = "get_patterns"        -> {Obj([category |-> Str("entity")])}
      [] name = "get_temporal_graph"  ->
            {Obj([startDate |-> Str("2024-01-01T00:00:00Z"), endDate |-> Str("2024-12-31T00:00:00Z")]),
             Obj([startDate |-> Str("2024-01-01T00:00:00Z"), endDate |-> Str(LoneSurrogate)])}
      [] name = "find_path"           ->
            {Obj([from |-> Str("Person1"), to |-> Str("Company1")]),
             Obj([from |-> Str("Person1"), to |-> Str("Company1"), maxDepth |-> Num(5)]),
             Obj([from |-> Str("Person1"), to |-> Str("Company1"), maxDepth |-> Num(0)]),
             Obj([from |-> Str(LoneSurrogate), to |-> Str("Company1")])}
      [] OTHER                        -> {}

\* The payload the remote service documents for a successful request.
\* Argument objects that are present but lack the tool's required fields or
\* give them a value of another type than the inputSchema asks for.
MistypedArgChoices(name) ==
    {Obj(NoFields)} \cup
    CASE name = "create_entities"     -> {Obj([entities |-> Str("Person1")]),
                                          Obj([entities |-> Arr(<<Num(5)>>)])}
      [] name = "create_relations"    -> {Obj([relations |-> Bool(TRUE)])}
      [] name = "add_observations"    -> {Obj([observations |-> Obj([entityName |-> Str("Person1")])])}
      [] name = "delete_entities"     -> {Obj([entityNames |-> Str("Person1")])}
      [] name = "delete_observations" -> {Obj([deletions |-> Num(5)])}
      [] name = "delete_relations"    -> {Obj([relations |-> Arr(<<Str("Person1")>>)])}
      [] name = "search_nodes"        -> {Obj([query |-> Num(5)]),
                                          Obj([query |-> Arr(<<Str("Person1"), Str("Company1")>>)]),
                                          Obj([query |-> Arr(<<Str(LoneSurrogate)>>)])}
      [] name = "open_nodes"          -> {Obj([names |-> Str("Person1")])}
      [] name = "get_patterns"        -> {Obj([category |-> Num(5)])}
      [] name = "get_temporal_graph"  ->
            {Obj([startDate |-> Str("2024-01-01T00:00:00Z")]),
             Obj([startDate |-> Num(5), endDate |-> Bool(FALSE)]),
             Obj([startDate |-> Arr(<<Str(LoneSurrogate)>>), endDate |-> Str("2024-12-31T00:00:00Z")])}
      [] name = "find_path"           ->
            {Obj([from |-> Str("Person1")]),
             Obj([from |-> Num(1), to |-> Num(2), maxDepth |-> Str("deep")]),
             Obj([from |-> Str("Person1"), to |-> Arr(<<Str(LoneSurrogate)>>)])}
      [] OTHER                        -> {}

GoodData(req) ==
    CASE req.path = "/health"             ->
            Obj([status |-> Str("ok"), features |-> Obj([base |-> Bool(TRUE)])])
      [] req.path = "/api/entities" /\ req.method = "POST"  ->
            Obj([created |-> IF Prop(req.body, "entities").t = "array"
                             THEN Prop(req.body, "entities") ELSE Arr(<<>>)])
      [] req.path = "/api/relations" /\ req.method = "POST" ->
            Obj([created |-> IF Prop(req.body, "relations").t = "array"
                             THEN Prop(req.body, "relations") ELSE Arr(<<>>)])
      [] req.path = "/api/observations" /\ req.method = "POST" ->
            Obj([updates |-> Arr(<<Obj([entityName |-> Str("Person1"),
                                        addedObservations |-> Arr(<<Str("likes tea")>>)])>>)])
      [] req.method = "DELETE"            -> Obj([message |-> Str("deleted")])
      [] req.path = "/api/graph"          -> Graph1
      [] req.path = "/api/patterns"       -> Obj([patterns |-> Arr(<<>>)])
      [] req.path = "/api/graph/path"     -> Obj([path |-> Graph1])
      [] OTHER                            -> Obj([graph |-> Graph1])

RemoteErrorText == "Entity not found"

\* What can come back for a request: the documented success envelope, a 2xx
\* body without a data field, a rejection envelope (with a 2xx or an error
\* status), an error status with a body that is no envelope, and no
\* response at all.
ReplyChoices(req) ==
    { HttpResponse(200, Obj([success |-> Bool(TRUE), data |-> GoodData(req)])),
      HttpResponse(200, Obj([status |-> Str("ok")])),
      HttpResponse(204, Str("")),
      HttpResponse(200, Obj([success |-> Bool(FALSE), error |-> Str(RemoteErrorText)])),
      HttpResponse(404, Obj([success |-> Bool(FALSE), error |-> Str(RemoteErrorText)])),
      HttpResponse(400, Obj([success |-> Bool(FALSE), error |-> Str("")])),
      HttpResponse(500, Str("Internal Server Error")),
      NetworkFailure("connect ECONNREFUSED 127.0.0.1:3000") }

(***************************************************************************)
(* The remote store, as its API documents it                               *)
(***************************************************************************)
\* The names in an array of strings.
NamesIn(v) == IF v.t = "array" THEN { v.v[i].v : i \in DOMAIN v.v } ELSE {}

\* The graph of a store holding the entities named in st; a relation lives
\* only while both its ends do.
GraphOf(st) ==
    Obj([entities  |-> Arr(SelectSeq(<<Person1, Company1>>, LAMBDA e : e.v.name.v \in st)),
         relations |-> Arr(IF {"Person1", "Company1"} \subseteq st THEN <<WorksAt>> ELSE <<>>)])

IsDeleteEntities(req) ==
    req.method = "DELETE" /\ req.path = "/api/entities"

StoreReply(st, req) ==
    CASE IsDeleteEntities(req) ->
            IF Prop(req.body, "entityNames").t = "array"
            THEN HttpResponse(200, Obj([success |-> Bool(TRUE),
                                        data |-> Obj([message |-> Str("Entities deleted successfully")])]))
            ELSE HttpResponse(400, Obj([success |-> Bool(FALSE), error |-> Str("Invalid input")]))
      [] req.method = "GET" /\ req.path = "/api/graph" ->
            HttpResponse(200, Obj([success |-> Bool(TRUE), data |-> GraphOf(st)]))
      [] OTHER ->
            HttpResponse(404, Obj([success |-> Bool(FALSE), error |-> Str("Not found")]))

StoreAfter(st, req) ==
    IF IsDeleteEntities(req) THEN st \ NamesIn(Prop(req.body, "entityNames")) ELSE st

(***************************************************************************)
(* State machine                                                           *)
(***************************************************************************)
NoResponse == [method |-> "none"]
NoClient   == [baseURL |-> "", headers |-> <<>>]

\* The entity names the remote store holds when the process starts.
StoredNames == {"Person1", "Company1"}

Init ==
    /\ env \in Environments
    /\ pc = "load"
    /\ API_KEY = Undefined
    /\ API_BASE_URL = ""
    /\ api = NoClient
    /\ inflight = EmptyBag
    /\ response = NoResponse
    /\ stderr = <<>>
    /\ exitCode = -1
    /\ store = StoredNames
    /\ acked = {}

\* Variant of the module evaluation without the credential check.
Load_Unchecked ==
    /\ pc = "load"
    /\ API_KEY' = env.MEMORY_API_KEY
    /\ API_BASE_URL' = ResolveBaseUrl(env)
    /\ pc' = "main"
    /\ api' = constructor(StringOf(env.MEMORY_API_KEY), ResolveBaseUrl(env))
    /\ UNCHANGED <<exitCode, stderr, env, inflight, response, store, acked>>

\* Module evaluation: resolve the configuration, refuse to go on without a
\* credential (the uncaught Error ends the process with status 1), build
\* the Facade and register the handlers.
Load ==
    /\ pc = "load"
    /\ API_KEY' = env.MEMORY_API_KEY
    /\ API_BASE_URL' = ResolveBaseUrl(env)
    /\ IF ~Truthy(env.MEMORY_API_KEY)
       THEN /\ pc' = "exited"
            /\ exitCode' = 1
            /\ stderr' = Append(stderr, "Error: MEMORY_API_KEY environment variable is required")
            /\ api' = api
       ELSE /\ pc' = "main"
            /\ api' = constructor(env.MEMORY_API_KEY.v, ResolveBaseUrl(env))
            /\ UNCHANGED <<exitCode, stderr>>
    /\ UNCHANGED <<env, inflight, response, store, acked>>

\* main(): server.connect(transport) succeeds and the server runs ...
ConnectOk ==
    /\ pc = "main"
    /\ pc' = "running"
    /\ stderr' = Append(stderr, "Knowledge Graph MCP Server (MongoDB) running on stdio")
    /\ UNCHANGED <<env, API_KEY, API_BASE_URL, api, inflight, response, exitCode, store, acked>>

FatalDiagnostic == "Fatal error in main():"

\* Variant of the failure path that leaves without writing the diagnostic.
ConnectFail_Silent ==
    /\ pc = "main"
    /\ pc' = "exiting"
    /\ UNCHANGED <<env, API_KEY, API_BASE_URL, api, inflight, response, stderr, exitCode, store, acked>>

\* ... or it fails, and main().catch first writes a diagnostic ...
ConnectFail ==
    /\ pc = "main"
    /\ pc' = "exiting"
    /\ stderr' = Append(stderr, FatalDiagnostic)
    /\ UNCHANGED <<env, API_KEY, API_BASE_URL, api, inflight, response, exitCode, store, acked>>

\* ... and then calls process.exit(1).
ExitProcess ==
    /\ pc = "exiting"
    /\ pc' = "exited"
    /\ exitCode' = 1
    /\ UNCHANGED <<env, API_KEY, API_BASE_URL, api, inflight, response, stderr, store, acked>>

\* Variant of the list-tools handler that leaves out the tools with an
\* invocation still suspended.
ListTools_HidesBusy ==
    /\ pc = "running"
    /\ response = NoResponse
    /\ response' = [method |-> "tools/list", name |-> "", args |-> Undefined,
                    requests |-> <<>>, reply |-> NoReply,
                    outcome |-> Returned([tools |->
                        SelectSeq(ToolDescriptors,
                                  LAMBDA d : \A inv \in BagToSet(inflight) : inv.name # d.name)])]
    /\ UNCHANGED <<env, pc, API_KEY, API_BASE_URL, api, inflight, stderr, exitCode, store, acked>>

\* The list-tools handler.
ListTools ==
    /\ pc = "running"
    /\ response = NoResponse
    /\ response' = [method |-> "tools/list", name |-> "", args |-> Undefined,
                    requests |-> <<>>, reply |-> NoReply,
                    outcome |-> Returned([tools |-> ToolDescriptors])]
    /\ UNCHANGED <<env, pc, API_KEY, API_BASE_URL, api, inflight, stderr, exitCode, store, acked>>

\* Variant of the call-tool handling that takes up a request only when no
\* earlier invocation is suspended.
CallTool_Serialized(name, args) ==
    /\ pc = "running"
    /\ response = NoResponse
    /\ inflight = EmptyBag
    /\ LET o == CallToolEnter(api, name, args) IN
       IF o.kind = "await"
       THEN /\ inflight' = inflight (+) SetToBag({[name |-> name, args |-> args,
                                                   requests |-> <<o.request>>]})
            /\ UNCHANGED response
       ELSE /\ response' = [method |-> "tools/call", name |-> name, args |-> args,
                            requests |-> <<>>, reply |-> NoReply, outcome |-> o]
            /\ UNCHANGED inflight
    /\ UNCHANGED <<env, pc, API_KEY, API_BASE_URL, api, stderr, exitCode, store, acked>>

\* A call-tool request arrives: the handler runs to its first await (the
\* invocation joins inflight with the request it issued) or to its end.
CallTool(name, args) ==
    /\ pc = "running"
    /\ response = NoResponse
    /\ LET o == CallToolEnter(api, name, args) IN
       IF o.kind = "await"
       THEN /\ BagCardinality(inflight) < MaxInFlight
            /\ inflight' = inflight (+) SetToBag({[name |-> name, args |-> args,
                                                   requests |-> <<o.request>>]})
            /\ UNCHANGED response
       ELSE /\ response' = [method |-> "tools/call", name |-> name, args |-> args,
                            requests |-> <<>>, reply |-> NoReply, outcome |-> o]
            /\ UNCHANGED inflight
    /\ UNCHANGED <<env, pc, API_KEY, API_BASE_URL, api, stderr, exitCode, store, acked>>

\* Variant of the resumption in which the handler reads the tool name and
\* arguments from a variable shared by all invocations, which a later
\* invocation has overwritten.
HandlerResumes_SharedCall(inv, reply) ==
    LET others == { o \in BagToSet(inflight) : o.name # inv.name }
        cur    == IF others = {} THEN inv ELSE CHOOSE o \in others : TRUE
    IN  /\ pc = "running"
        /\ response = NoResponse
        /\ BagIn(inv, inflight)
        /\ inflight' = inflight (-) SetToBag({inv})
        /\ response' = [method |-> "tools/call", name |-> inv.name, args |-> inv.args,
                        requests |-> inv.requests, reply |-> reply,
                        outcome |-> CallToolResume(api, cur.name, cur.args, reply)]
        /\ UNCHANGED <<env, pc, API_KEY, API_BASE_URL, api, stderr, exitCode>>

\* The HTTP call of a suspended invocation settles with `reply`; the handler
\* runs from its await to its end.
HandlerResumes(inv, reply) ==
    /\ pc = "running"
    /\ response = NoResponse
    /\ BagIn(inv, inflight)
    /\ inflight' = inflight (-) SetToBag({inv})
    /\ response' = [method |-> "tools/call", name |-> inv.name, args |-> inv.args,
                    requests |-> inv.requests, reply |-> reply,
                    outcome |-> CallToolResume(api, inv.name, inv.args, reply)]
    /\ UNCHANGED <<env, pc, API_KEY, API_BASE_URL, api, stderr, exitCode>>

\* Any remote service, or the network, settles the call.
RemoteReply(inv, reply) ==
    /\ HandlerResumes(inv, reply)
    /\ UNCHANGED <<store, acked>>

\* The remote store serves the call as its API documents: it applies the
\* request to its entities and answers from them.  acked records the names
\* whose deletion a tool response has reported as done.
StoreServes(inv) ==
    LET req == inv.requests[Len(inv.requests)] IN
    /\ HandlerResumes(inv, StoreReply(store, req))
    /\ store' = StoreAfter(store, req)
    /\ acked' = acked \cup
                  (IF /\ inv.name = "delete_entities"
                      /\ "isError" \notin DOMAIN response'.outcome.result
                   THEN NamesIn(Prop(inv.args, "entityNames"))
                   ELSE {})

\* The transport writes the response; this happens in the same turn of the
\* event loop as the end of the handler, before any other message or reply
\* is processed.
Send ==
    /\ response # NoResponse
    /\ response' = NoResponse
    /\ UNCHANGED <<env, pc, API_KEY, API_BASE_URL, api, inflight, stderr, exitCode, store, acked>>

Next ==
    \/ Load
    \/ ConnectOk
    \/ ConnectFail
    \/ ExitProcess
    \/ ListTools
    \/ \E name \in CallNames : \E args \in ArgChoices(name) : CallTool(name, args)
    \/ \E inv \in BagToSet(inflight) : \E reply \in ReplyChoices(inv.requests[Len(inv.requests)]) :
          RemoteReply(inv, reply)
    \/ Send

Spec == Init /\ [][Next]_vars

\* The same program against a remote store that behaves as documented:
\* the host deletes entities and reads the graph, the store serves each
\* request, and the network may fail a request before it reaches the store.
StoreTools == {"delete_entities", "read_graph"}

StoreArgChoices(name) ==
    IF name = "delete_entities"
    THEN {Undefined, Obj(NoFields),
          Obj([entityNames |-> Arr(<<Str("Person1")>>)]),
          Obj([entityNames |-> Arr(<<Str("Company1")>>)])}
    ELSE {Obj(NoFields)}

NextStore ==
    \/ Load
    \/ ConnectOk
    \/ ConnectFail
    \/ ExitProcess
    \/ ListTools
    \/ \E name \in StoreTools : \E args \in StoreArgChoices(name) : CallTool(name, args)
    \/ \E inv \in BagToSet(inflight) : StoreServes(inv)
    \/ \E inv \in BagToSet(inflight) :
          RemoteReply(inv, NetworkFailure("connect ECONNREFUSED 127.0.0.1:3000"))
    \/ Send

SpecStore == Init /\ [][NextStore]_vars

\* The same program, called with argument objects that do not fit the
\* tools' schemas.
NextMistyped ==
    \/ Load
    \/ ConnectOk
    \/ ConnectFail
    \/ ExitProcess
    \/ ListTools
    \/ \E name \in ToolNames : \E args \in MistypedArgChoices(name) : CallTool(name, args)
    \/ \E inv \in BagToSet(inflight) : \E reply \in ReplyChoices(inv.requests[Len(inv.requests)]) :
          RemoteReply(inv, reply)
    \/ Send

SpecMistyped == Init /\ [][NextMistyped]_vars

(***************************************************************************)
(* Vocabulary of the properties                                            *)
(***************************************************************************)
\* A call-tool invocation has just ended and its response is being written.
Completed == response.method = "tools/call"

Suspensions == BagToSet(inflight)

\* Every HTTP request issued by an invocation that is suspended or has just
\* ended.
RequestsOf(inv) == { inv.requests[i] : i \in DOMAIN inv.requests }

IssuedRequests ==
    UNION { RequestsOf(inv) : inv \in Suspensions }
    \cup (IF Completed THEN RequestsOf(response) ELSE {})

ErrorEnvelope(text) == [content |-> TextContent(Str(text)), isError |-> TRUE]

\* The outcome is a result envelope marked isError:true with one text item.
IsErrorResult(o) ==
    /\ o.kind = "result"
    /\ DOMAIN o.result = {"content", "isError"}
    /\ o.result.isError = TRUE
    /\ Len(o.result.content) = 1
    /\ o.result.content[1].type = "text"

\* The outcome is a result envelope without an isError field.
IsPlainResult(o) ==
    /\ o.kind = "result"
    /\ DOMAIN o.result = {"content"}

Serving == pc = "running" /\ exitCode = -1

(***************************************************************************)
(* C1.  A call-tool request whose argument object is absent is answered,   *)
(* for every tool name, with an isError:true result envelope naming the    *)
(* tool, and the handler does not reject.                                  *)
(* The handler throws before its try block, so this fails.                 *)
(***************************************************************************)
C1_AbsentArgumentsAnswered ==
    (Completed /\ response.args = Undefined) =>
        /\ IsErrorResult(response.outcome)
        /\ response.outcome.result.content[1].text
               = Str("Error: No arguments provided for tool: " \o response.name)

(***************************************************************************)
(* C2.  A call-tool request with a present argument object and a name that *)
(* is not registered is answered with the isError:true envelope            *)
(* "Error: Unknown tool: <name>", and the server keeps serving: the        *)
(* process stays up, and once the response is written both a list-tools    *)
(* and a call-tool request can be handled.                                 *)
(***************************************************************************)
UnknownToolCall ==
    /\ Completed
    /\ Truthy(response.args)
    /\ response.name \notin ToolNames

C2_UnknownToolReported ==
    /\ [](UnknownToolCall =>
            /\ response.outcome = Returned(ErrorEnvelope("Error: Unknown tool: " \o response.name))
            /\ Serving)
    /\ [][UnknownToolCall => (pc' = "running" /\ exitCode' = -1 /\ response' = NoResponse)]_vars
    /\ []((Serving /\ response = NoResponse) =>
            /\ ENABLED ListTools
            /\ ENABLED CallTool(UnregisteredName, Obj(NoFields)))

C2_Witness ==
    /\ UnknownToolCall
    /\ response.outcome.kind = "result"
    /\ response.requests = <<>>

(***************************************************************************)
(* C3.  After startup every call-tool request, whatever its name,          *)
(* arguments and remote outcome, ends by returning a result envelope; the  *)
(* handler never rejects and the process keeps running.                    *)
(* Fails for an absent argument object (see C1).                           *)
(***************************************************************************)
C3_EveryCallReturnsEnvelope ==
    Completed =>
        /\ response.outcome.kind = "result"
        /\ "content" \in DOMAIN response.outcome.result
        /\ Serving

(***************************************************************************)
(* C4.  Original statement: whenever the remote service answers with an    *)
(* envelope {success:false, error:e}, whatever the HTTP status, the        *)
(* response is an isError:true envelope whose text carries e.              *)
(* Fails for a 2xx status: axios resolves and the body's success flag is   *)
(* never read.                                                             *)
(***************************************************************************)
\* The reply is an HTTP response whose body is {success:false, error:<string>}.
IsRejectionEnvelope(reply) ==
    /\ reply.kind = "response"
    /\ reply.data.t = "object"
    /\ Prop(reply.data, "success") = Bool(FALSE)
    /\ Prop(reply.data, "error").t = "string"

RejectionText(reply) == Prop(reply.data, "error").v

C4_RejectionSurfacedAnyStatus ==
    (Completed /\ IsRejectionEnvelope(response.reply)) =>
        /\ IsErrorResult(response.outcome)
        /\ response.outcome.result.content[1].text
               \in { Str("Error: " \o RejectionText(response.reply)),
                     Str(RejectionText(response.reply)) }

(***************************************************************************)
(* C4, amended.  For every tool, whenever the remote service answers with  *)
(* a non-2xx status and an envelope {success:false, error:e} with e not    *)
(* empty, the response is the isError:true envelope with text "Error: " e. *)
(***************************************************************************)
IsHttpFailure(reply) ==
    reply.kind = "response" /\ ~(reply.status >= 200 /\ reply.status < 300)

C4_RejectionSurfaced ==
    (/\ Completed
     /\ IsRejectionEnvelope(response.reply)
     /\ IsHttpFailure(response.reply)
     /\ RejectionText(response.reply) # "") =>
        response.outcome = Returned(ErrorEnvelope("Error: " \o RejectionText(response.reply)))

C4_Witness ==
    /\ Completed
    /\ response.name = "find_path"
    /\ IsRejectionEnvelope(response.reply)
    /\ response.reply.status = 404
    /\ RejectionText(response.reply) = RemoteErrorText
    /\ IsErrorResult(response.outcome)

(***************************************************************************)
(* C5.  A call-tool response carries isError:true if and only if the       *)
(* invocation failed (absent arguments, unknown tool, or the Facade method *)
(* threw); a response to an invocation whose Facade method returned has no *)
(* isError field.                                                          *)
(* Fails for absent arguments: that response is a rejection (see C1).      *)
(***************************************************************************)
FacadeThrew ==
    /\ Truthy(response.args)
    /\ response.name \in ToolNames
    /\ LET m == Route(api, response.name, response.args) IN
       \/ m.begin.thrown
       \/ response.reply # NoReply /\ Complete(m, response.reply).thrown

FacadeReturned ==
    /\ Truthy(response.args)
    /\ response.name \in ToolNames
    /\ response.reply # NoReply
    /\ ~Complete(Route(api, response.name, response.args), response.reply).thrown

InvocationFailed ==
    \/ ~Truthy(response.args)
    \/ response.name \notin ToolNames
    \/ FacadeThrew

C5_IsErrorIffFailed ==
    Completed =>
        /\ InvocationFailed <=> IsErrorResult(response.outcome)
        /\ FacadeReturned => IsPlainResult(response.outcome)

(***************************************************************************)
(* C6.  Original statement: the request issued for a find_path call with   *)
(* from and to but no maxDepth asks for maxDepth=3.                        *)
(* Fails: the url built for it has no maxDepth parameter.                  *)
(***************************************************************************)
Invocations ==
    Suspensions \cup
    (IF Completed
     THEN {[name |-> response.name, args |-> response.args, requests |-> response.requests]}
     ELSE {})

HasParam(req, k, v) == \E i \in DOMAIN req.query : req.query[i] = <<k, v>>
ParamNames(req) == [i \in DOMAIN req.query |-> req.query[i][1]]

FindPathWithoutDepth(inv) ==
    /\ inv.name = "find_path"
    /\ Truthy(inv.args)
    /\ {"from", "to"} \subseteq DOMAIN inv.args.v
    /\ "maxDepth" \notin DOMAIN inv.args.v

C6_FindPathRequestsDepth3 ==
    \A inv \in Invocations : FindPathWithoutDepth(inv) =>
        \A r \in RequestsOf(inv) : HasParam(r, "maxDepth", "3")

(***************************************************************************)
(* C6, amended.  A find_path call with from and to but no maxDepth issues  *)
(* GET /api/graph/path with the parameters from and to only; the depth is  *)
(* not sent, so the remote service applies its own default of 3.           *)
(***************************************************************************)
\* Default depth the remote service documents for /api/graph/path.
ServiceDefaultMaxDepth == 3

\* The depth the remote service searches with for a path request.
ServiceDepth(req) ==
    IF \E i \in DOMAIN req.query : req.query[i][1] = "maxDepth"
    THEN LET i == CHOOSE j \in DOMAIN req.query : req.query[j][1] = "maxDepth" IN req.query[i][2]
    ELSE ToStr(ServiceDefaultMaxDepth)

C6_FindPathOmitsDepth ==
    \A inv \in Invocations : FindPathWithoutDepth(inv) =>
        \A r \in RequestsOf(inv) :
            /\ r.method = "GET"
            /\ r.path = "/api/graph/path"
            /\ ParamNames(r) = <<"from", "to">>
            /\ ServiceDepth(r) = "3"

C6_Witness ==
    \E inv \in Suspensions :
        /\ FindPathWithoutDepth(inv)
        /\ Len(inv.requests) = 1
        /\ HasParam(inv.requests[1], "from", "Person1")

(***************************************************************************)
(* C7.  Original statement: every call-tool invocation that names a        *)
(* registered tool and has an argument object issues exactly one HTTP      *)
(* request over its lifetime.                                              *)
(* Fails when encodeURIComponent throws on a malformed string argument:    *)
(* the method ends before it issues its request.                           *)
(***************************************************************************)
Dispatched(inv) == inv.name \in ToolNames /\ Truthy(inv.args)

C7_ExactlyOneRequest ==
    \A inv \in Invocations : Dispatched(inv) => Len(inv.requests) = 1

(***************************************************************************)
(* C7, amended.  Every call-tool invocation that names a registered tool   *)
(* and has an argument object issues at most one HTTP request over its     *)
(* lifetime, whether the request succeeds or fails, and exactly one unless *)
(* a string that search_nodes, get_temporal_graph or find_path url-encodes *)
(* is malformed, in which case it issues none.                             *)
(***************************************************************************)
Malformed(args, f) == Prop(args, f) = Str(LoneSurrogate)

MalformedUrlArgument(inv) ==
    \/ inv.name = "search_nodes" /\ Malformed(inv.args, "query")
    \/ inv.name = "get_temporal_graph"
         /\ (Malformed(inv.args, "startDate") \/ Malformed(inv.args, "endDate"))
    \/ inv.name = "find_path"
         /\ (Malformed(inv.args, "from") \/ Malformed(inv.args, "to"))

C7_AtMostOneRequest ==
    \A inv \in Invocations : Dispatched(inv) =>
        Len(inv.requests) = (IF MalformedUrlArgument(inv) THEN 0 ELSE 1)

C7_Witness ==
    /\ Completed
    /\ Dispatched(response)
    /\ response.reply.kind = "failed"
    /\ Len(response.requests) = 1
    /\ IsErrorResult(response.outcome)

(***************************************************************************)
(* C8.  A call-tool request whose argument object is absent, and one whose *)
(* name is not registered, issue no HTTP request.                          *)
(***************************************************************************)
C8_RejectedCallsIssueNothing ==
    \A inv \in Invocations :
        (inv.args = Undefined \/ inv.name \notin ToolNames) => inv.requests = <<>>

C8_Witness ==
    /\ Completed
    /\ response.args = Undefined
    /\ response.name = "check_health"
    /\ response.outcome.kind = "rejected"
    /\ response.requests = <<>>

(***************************************************************************)
(* C9.  Original statement: every HTTP request belongs to an invocation    *)
(* that supplied a non-empty argument object.                              *)
(* Fails: only an absent argument object is refused; {} is dispatched.     *)
(***************************************************************************)
IsEmptyObject(v) == v.t = "object" /\ DOMAIN v.v = {}

C9_RequestsNeedNonEmptyArguments ==
    \A inv \in Invocations : inv.requests # <<>> =>
        Truthy(inv.args) /\ ~IsEmptyObject(inv.args)

(***************************************************************************)
(* C9, amended.  No Facade method is invoked for a tool call whose         *)
(* argument object is absent: every HTTP request belongs to an invocation  *)
(* that supplied an argument object, which may be empty.                   *)
(***************************************************************************)
C9_RequestsNeedArguments ==
    \A inv \in Invocations : inv.requests # <<>> => inv.args.t = "object"

C9_Witness ==
    \E inv \in Suspensions :
        /\ inv.name = "read_graph"
        /\ IsEmptyObject(inv.args)
        /\ Len(inv.requests) = 1

(***************************************************************************)
(* C10.  Every HTTP request carries exactly one Authorization header, the  *)
(* bearer credential read from the environment at start, and goes to the   *)
(* base address resolved at start (http://localhost:3000 when none is      *)
(* configured); no operation of the running server changes them.           *)
(***************************************************************************)
AuthorizationValues(req) ==
    LET hs == SelectSeq(req.headers, LAMBDA h : h[1] = "Authorization")
    IN  [i \in DOMAIN hs |-> hs[i][2]]

ConfiguredBase ==
    IF env.MEMORY_API_URL \in {Undefined, Str("")}
    THEN "http://localhost:3000"
    ELSE env.MEMORY_API_URL.v

C10_CredentialFixed ==
    /\ [](\A r \in IssuedRequests :
            /\ AuthorizationValues(r) = << "Bearer " \o env.MEMORY_API_KEY.v >>
            /\ r.baseURL = ConfiguredBase)
    /\ [](pc = "running" => API_KEY = env.MEMORY_API_KEY /\ API_BASE_URL = ConfiguredBase)
    /\ [][pc = "running" => UNCHANGED <<env, API_KEY, API_BASE_URL, api>>]_vars

C10_Witness ==
    /\ Completed
    /\ env.MEMORY_API_URL = Undefined
    /\ \E r \in RequestsOf(response) : r.baseURL = "http://localhost:3000"
    /\ \E inv \in Suspensions : inv.requests # <<>>

(***************************************************************************)
(* C11.  If the credential is absent (unset or empty) at startup, the      *)
(* process ends with a failure status before the stdio channel is opened:  *)
(* the Facade is never built, main() is never entered, no list-tools or    *)
(* call-tool request is served and no HTTP request is issued.              *)
(***************************************************************************)
CredentialAbsent == ~Truthy(env.MEMORY_API_KEY)

ChannelOpened ==
    \E i \in DOMAIN stderr : stderr[i] = "Knowledge Graph MCP Server (MongoDB) running on stdio"

C11_NoCredentialNoService ==
    CredentialAbsent =>
        /\ pc \in {"load", "exited"}
        /\ pc = "exited" => exitCode = 1
        /\ pc = "load" => exitCode = -1
        /\ ~ChannelOpened
        /\ api = NoClient
        /\ response = NoResponse
        /\ inflight = EmptyBag

C11_Witness ==
    /\ env.MEMORY_API_KEY = Str("")
    /\ pc = "exited"
    /\ exitCode = 1
    /\ stderr = <<"Error: MEMORY_API_KEY environment variable is required">>

(***************************************************************************)
(* C12.  The Dispatcher and the Tool Registry agree: list-tools returns    *)
(* the 13 catalogued names; a call to any of them is routed to one Facade  *)
(* method, whose request (if it issues one) has the HTTP method and path   *)
(* the remote REST contract gives for that tool, and never ends in the     *)
(* unknown-tool failure; a call to any other name issues no request.       *)
(***************************************************************************)
Catalogue ==
    << "check_health", "create_entities", "create_relations", "add_observations",
       "delete_entities", "delete_observations", "delete_relations", "read_graph",
       "search_nodes", "open_nodes", "get_patterns", "get_temporal_graph", "find_path" >>

Catalogued == { Catalogue[i] : i \in DOMAIN Catalogue }

\* Method and path of the remote REST contract, per tool.
RestContract(name) ==
    CASE name = "check_health"        -> <<"GET", "/health">>
      [] name = "create_entities"     -> <<"POST", "/api/entities">>
      [] name = "create_relations"    -> <<"POST", "/api/relations">>
      [] name = "add_observations"    -> <<"POST", "/api/observations">>
      [] name = "delete_entities"     -> <<"DELETE", "/api/entities">>
      [] name = "delete_observations" -> <<"DELETE", "/api/observations">>
      [] name = "delete_relations"    -> <<"DELETE", "/api/relations">>
      [] name = "read_graph"          -> <<"GET", "/api/graph">>
      [] name = "search_nodes"        -> <<"GET", "/api/search">>
      [] name = "open_nodes"          -> <<"POST", "/api/nodes">>
      [] name = "get_patterns"        -> <<"GET", "/api/patterns">>
      [] name = "get_temporal_graph"  -> <<"GET", "/api/graph/temporal">>
      [] name = "find_path"           -> <<"GET", "/api/graph/path">>
      [] OTHER                        -> <<"", "">>

Listed == response.method = "tools/list"

C12_RegistryMatchesDispatcher ==
    /\ Listed =>
          [i \in DOMAIN response.outcome.result.tools |-> response.outcome.result.tools[i].name]
              = Catalogue
    /\ \A inv \in Invocations :
          IF inv.name \in Catalogued
          THEN /\ Len(inv.requests) <= 1
               /\ \A r \in RequestsOf(inv) : <<r.method, r.path>> = RestContract(inv.name)
          ELSE inv.requests = <<>>
    /\ (Completed /\ response.name \in Catalogued /\ Truthy(response.args)) =>
          response.outcome # Returned(ErrorEnvelope("Error: Unknown tool: " \o response.name))

C12_Witness ==
    /\ Completed
    /\ response.name = "delete_observations"
    /\ Len(response.requests) = 1
    /\ response.requests[1].method = "DELETE"
    /\ response.requests[1].path = "/api/observations"
    /\ IsPlainResult(response.outcome)

(***************************************************************************)
(* C13.  Overlapping invocations are independent: the requests and the     *)
(* response of an invocation are those it would have alone, a function of  *)
(* its own name and arguments, the reply to its own HTTP request and the   *)
(* configuration fixed at startup, whatever else is suspended; a step of   *)
(* one invocation leaves every other suspended invocation as it was, and   *)
(* no step of the running server writes the shared client or process state.*)
(***************************************************************************)
StartupClient == constructor(env.MEMORY_API_KEY.v, ConfiguredBase)

AloneEnter == CallToolEnter(StartupClient, response.name, response.args)

AloneOutcome ==
    IF response.reply = NoReply
    THEN AloneEnter
    ELSE CallToolResume(StartupClient, response.name, response.args, response.reply)

AloneRequests ==
    IF Truthy(response.args) /\ AloneEnter.kind = "await" THEN <<AloneEnter.request>> ELSE <<>>

\* The invocation whose response is being written in the next state, when
\* it was suspended in this one.
Resumed(inv) ==
    /\ response = NoResponse
    /\ response'.method = "tools/call"
    /\ response'.reply # NoReply
    /\ inv = [name |-> response'.name, args |-> response'.args, requests |-> response'.requests]

C13_InvocationsIndependent ==
    /\ [](Completed => response.outcome = AloneOutcome /\ response.requests = AloneRequests)
    /\ [][\A inv \in Suspensions :
            CopiesIn(inv, inflight') >= CopiesIn(inv, inflight) - (IF Resumed(inv) THEN 1 ELSE 0)]_vars
    /\ [][pc = "running" => UNCHANGED <<pc, api, stderr, exitCode>>]_vars

C13_Witness ==
    /\ Completed
    /\ response.name = "read_graph"
    /\ response.reply.kind = "response"
    /\ IsPlainResult(response.outcome)
    /\ \E other \in Suspensions : other.name = "delete_entities"

(***************************************************************************)
(* C14.  A stalled network call blocks only its own invocation: while any  *)
(* invocation is suspended and the transport is idle, a list-tools request *)
(* can be handled, a call-tool request can be dispatched (any call that    *)
(* ends without a network call always, one that suspends as long as the    *)
(* model's MaxInFlight leaves room), and every suspended invocation can    *)
(* complete as soon as its own reply arrives, whatever the others do.      *)
(***************************************************************************)
C14_StalledCallBlocksNothing ==
    (Serving /\ response = NoResponse /\ inflight # EmptyBag) =>
        /\ ENABLED ListTools
        /\ ENABLED CallTool(UnregisteredName, Obj(NoFields))
        /\ BagCardinality(inflight) < MaxInFlight =>
              \A name \in ToolNames : ENABLED CallTool(name, Obj(NoFields))
        /\ \A inv \in Suspensions :
              \A reply \in ReplyChoices(inv.requests[1]) : ENABLED RemoteReply(inv, reply)

C14_Witness ==
    /\ Completed
    /\ response.name = "check_health"
    /\ response.reply.kind = "response"
    /\ response.outcome.kind = "result"
    /\ \E other \in Suspensions : other.name = "find_path"

(***************************************************************************)
(* C15.  For every tool, when the remote service is unreachable (the HTTP  *)
(* request fails with no response), the call-tool response is the         *)
(* isError:true envelope "Error: " followed by the connection-level        *)
(* message, and the process keeps serving.                                 *)
(***************************************************************************)
Unreachable == Completed /\ response.reply.kind = "failed"

C15_UnreachableReported ==
    /\ [](Unreachable =>
            /\ response.outcome = Returned(ErrorEnvelope("Error: " \o response.reply.message))
            /\ Len(response.requests) = 1
            /\ Serving)
    /\ [][Unreachable => (pc' = "running" /\ exitCode' = -1 /\ response' = NoResponse)]_vars
    /\ []((Serving /\ response = NoResponse) => ENABLED ListTools)

C15_Witness ==
    /\ Unreachable
    /\ response.name = "open_nodes"
    /\ response.outcome.result.content[1].text = Str("Error: connect ECONNREFUSED 127.0.0.1:3000")
    /\ response.outcome.result.isError = TRUE

(***************************************************************************)
(* C16.  Original statement: every failure inside a Facade method that is  *)
(* neither a response-carrying HTTP failure nor an unreachable-service     *)
(* failure is surfaced with the generic "unknown error" message.           *)
(* Fails: such a failure is an Error (a TypeError from unwrapping, a       *)
(* URIError from encoding) and handleError rethrows it with its message.   *)
(***************************************************************************)
\* The error raised inside the Facade method of the completed invocation
\* by something other than the HTTP call itself, if any.
OtherFailure ==
    LET m == Route(api, response.name, response.args) IN
    IF m.begin.thrown THEN m.begin
    ELSE IF response.reply # NoReply /\ ~AxiosSettle(response.reply).thrown /\ ~m.void
    THEN ReadPath(AxiosSettle(response.reply).value, m.unwrap)
    ELSE [thrown |-> FALSE]

FailedOtherwise ==
    /\ Completed
    /\ Truthy(response.args)
    /\ response.name \in ToolNames
    /\ OtherFailure.thrown

C16_OtherFailuresGeneric ==
    FailedOtherwise =>
        /\ IsErrorResult(response.outcome)
        /\ response.outcome.result.content[1].text
              \in { Str("Error: An unknown error occurred"), Str("An unknown error occurred") }

(***************************************************************************)
(* C16, amended.  Every failure inside a Facade method that is neither a   *)
(* response-carrying HTTP failure nor an unreachable-service failure is an *)
(* Error instance and is surfaced with its own message: the response is    *)
(* the isError:true envelope "Error: " followed by that message (for       *)
(* example the TypeError raised while unwrapping a malformed success       *)
(* payload), not the generic "An unknown error occurred".                  *)
(***************************************************************************)
C16_OtherFailuresKeepMessage ==
    FailedOtherwise =>
        /\ OtherFailure.error.isError
        /\ response.outcome = Returned(ErrorEnvelope("Error: " \o OtherFailure.error.message))
        /\ OtherFailure.error.message # "An unknown error occurred"

C16_Witness ==
    /\ FailedOtherwise
    /\ response.name = "create_entities"
    /\ response.reply.kind = "response"
    /\ response.reply.status = 200
    /\ response.outcome.result.content[1].text
          = Str("Error: Cannot read properties of undefined (reading 'created')")

(***************************************************************************)
(* C17.  Against a remote store that deletes on request: once             *)
(* delete_entities has returned success, the graph a read_graph returns    *)
(* contains none of the deleted names; every read_graph issues its own     *)
(* network call and returns the snapshot that call carried (no cache).     *)
(***************************************************************************)
GraphRead ==
    /\ Completed
    /\ response.name = "read_graph"
    /\ response.reply.kind = "response"

RenderedNames ==
    NamesIn(Arr([i \in DOMAIN response.outcome.result.content[1].text.json.v.entities.v |->
                    response.outcome.result.content[1].text.json.v.entities.v[i].v.name]))

C17_ReadSeesDeletes ==
    /\ acked \cap store = {}
    /\ \A inv \in Invocations :
          (inv.name = "read_graph" /\ Truthy(inv.args)) =>
              /\ Len(inv.requests) = 1
              /\ <<inv.requests[1].method, inv.requests[1].path>> = <<"GET", "/api/graph">>
    /\ GraphRead =>
          /\ response.outcome = Returned([content |-> TextContent(JsonText(GraphOf(store)))])
          /\ response.outcome.result.content[1].text.json = Prop(response.reply.data, "data")
          /\ RenderedNames \cap acked = {}

C17_Witness ==
    /\ GraphRead
    /\ acked = {"Person1"}
    /\ RenderedNames = {"Company1"}

(***************************************************************************)
(* C18.  When the remote service accepts a create_entities call in full,   *)
(* the rendered sequence has the same length and order as the input: the   *)
(* adapter returns the `created` array of the reply without dropping,      *)
(* adding or reordering elements.                                          *)
(***************************************************************************)
CreatedByRemote == Prop(Prop(response.reply.data, "data"), "created")

EntitiesCreated ==
    /\ Completed
    /\ response.name = "create_entities"
    /\ Truthy(response.args)
    /\ response.reply.kind = "response"
    /\ response.reply.status = 200
    /\ CreatedByRemote.t = "array"

C18_CreatedKeptInOrder ==
    EntitiesCreated =>
        /\ response.outcome = Returned([content |-> TextContent(JsonText(CreatedByRemote))])
        /\ CreatedByRemote = Prop(response.args, "entities") =>
              LET in  == Prop(response.args, "entities").v
                  out == response.outcome.result.content[1].text.json.v
              IN  /\ Len(out) = Len(in)
                  /\ \A i \in DOMAIN in : out[i] = in[i]

C18_Witness ==
    /\ EntitiesCreated
    /\ response.outcome.result.content[1].text.json = Arr(<<Person1, Company1>>)
    /\ Prop(response.args, "entities") = Arr(<<Person1, Company1>>)

(***************************************************************************)
(* C19.  If establishing the stdio channel fails, a diagnostic is written  *)
(* first and then the process exits with status 1; no request is served    *)
(* after that.                                                             *)
(***************************************************************************)
ChannelFailed == pc = "exiting" \/ (pc = "exited" /\ Truthy(API_KEY))

DiagnosticWritten == stderr # <<>> /\ stderr[Len(stderr)] = FatalDiagnostic

NothingServed ==
    /\ response = NoResponse
    /\ inflight = EmptyBag
    /\ ~ENABLED ListTools
    /\ \A name \in CallNames : \A args \in ArgChoices(name) \cup {Obj(NoFields)} :
          ~ENABLED CallTool(name, args)

C19_ChannelFailureIsFatal ==
    /\ [](ChannelFailed =>
            /\ DiagnosticWritten
            /\ NothingServed
            /\ exitCode = (IF pc = "exited" THEN 1 ELSE -1))
    /\ [][(pc = "main" /\ pc' # "running") =>
             (pc' = "exiting" /\ exitCode' = -1 /\ stderr' = Append(stderr, FatalDiagnostic))]_vars
    /\ [][pc = "exiting" => (pc' = "exited" /\ exitCode' = 1 /\ stderr' = stderr)]_vars
    /\ [][pc = "exited" => FALSE]_vars

C19_Witness ==
    /\ pc = "exited"
    /\ Truthy(API_KEY)
    /\ exitCode = 1
    /\ stderr = <<FatalDiagnostic>>

(***************************************************************************)
(* C20.  Every list-tools request returns the same ordered sequence of 13  *)
(* descriptors, whatever tool calls have completed, failed or are in       *)
(* flight; answering it issues no HTTP request and changes no state.       *)
(***************************************************************************)
ListedNames ==
    [i \in DOMAIN response.outcome.result.tools |-> response.outcome.result.tools[i].name]

C20_ListingIsConstant ==
    /\ [](Listed =>
            /\ response.outcome.kind = "result"
            /\ DOMAIN response.outcome.result = {"tools"}
            /\ Len(response.outcome.result.tools) = 13
            /\ ListedNames = Catalogue
            /\ response.outcome.result.tools[13].required = <<"from", "to">>
            /\ response.requests = <<>>
            /\ response.reply = NoReply)
    /\ [][Listed' =>
             /\ response = NoResponse
             /\ inflight' = inflight
             /\ UNCHANGED <<env, pc, API_KEY, API_BASE_URL, api, stderr, exitCode, store, acked>>]_vars
    /\ [][Listed =>
             /\ response' = NoResponse
             /\ UNCHANGED <<env, pc, API_KEY, API_BASE_URL, api, inflight, stderr, exitCode, store, acked>>]_vars

C20_Witness ==
    /\ Listed
    /\ ListedNames = Catalogue
    /\ \E inv \in Suspensions : inv.name = "read_graph"
    /\ \E inv \in Suspensions : inv.name = "delete_entities"

(***************************************************************************)
(* C21.  Original statement: the Dispatcher validates nothing beyond the   *)
(* absent-argument check; for every registered tool, a call whose argument *)
(* object is present but lacks or mistypes the required fields still       *)
(* issues exactly one HTTP request carrying the extracted field values     *)
(* unchanged (mutation bodies verbatim), and a remote rejection of it      *)
(* yields an ordinary error envelope.                                      *)
(* Fails for the tools that url-encode a field: a mistyped value whose     *)
(* string conversion is malformed (["\ud800"] for a string) makes          *)
(* encodeURIComponent throw and no request is issued.                      *)
(***************************************************************************)
\* The argument field a tool forwards in its request body, if it has one.
BodyField(name) ==
    CASE name = "create_entities"     -> <<"entities">>
      [] name = "create_relations"    -> <<"relations">>
      [] name = "add_observations"    -> <<"observations">>
      [] name = "delete_entities"     -> <<"entityNames">>
      [] name = "delete_observations" -> <<"deletions">>
      [] name = "delete_relations"    -> <<"relations">>
      [] name = "open_nodes"          -> <<"names">>
      [] OTHER                        -> <<>>

\* The argument fields a tool url-encodes into its request line.
EncodedFields(name) ==
    CASE name = "search_nodes"       -> {"query"}
      [] name = "get_temporal_graph" -> {"startDate", "endDate"}
      [] name = "find_path"          -> {"from", "to"}
      [] OTHER                       -> {}

Unencodable(inv) ==
    \E f \in EncodedFields(inv.name) : StringOf(Prop(inv.args, f)) = LoneSurrogate

\* The request carries the fields extracted from the argument object: the
\* body field is the argument's value itself, a url-encoded field is the
\* encoding of its string conversion.
CarriesArguments(inv, r) ==
    /\ <<r.method, r.path>> = RestContract(inv.name)
    /\ IF BodyField(inv.name) # <<>>
       THEN /\ DOMAIN r.body.v = {BodyField(inv.name)[1]}
            /\ r.body.v[BodyField(inv.name)[1]] = Prop(inv.args, BodyField(inv.name)[1])
       ELSE r.body = Undefined
    /\ \A f \in EncodedFields(inv.name) :
          HasParam(r, f, encodeURIComponent(Prop(inv.args, f)).value)

RemoteRejected ==
    /\ Completed
    /\ Dispatched(response)
    /\ IsHttpFailure(response.reply)

\* The message of a remote rejection: the error text of its body when it
\* has one, else the message of the HTTP failure.
RejectionMessage(reply) ==
    IF Truthy(Prop(reply.data, "error"))
    THEN StringOf(Prop(reply.data, "error"))
    ELSE "Request failed with status code " \o ToStr(reply.status)

RejectionIsOrdinaryError ==
    RemoteRejected =>
        /\ response.outcome = Returned(ErrorEnvelope("Error: " \o RejectionMessage(response.reply)))
        /\ Serving

C21_MistypedArgumentsForwarded ==
    /\ \A inv \in Invocations : Dispatched(inv) =>
          /\ Len(inv.requests) = 1
          /\ CarriesArguments(inv, inv.requests[1])
    /\ RejectionIsOrdinaryError

(***************************************************************************)
(* C21, amended.  The Dispatcher validates nothing beyond the              *)
(* absent-argument check: for every registered tool, a call whose argument *)
(* object is present but lacks or mistypes the required fields issues      *)
(* exactly one HTTP request carrying the extracted field values (mutation  *)
(* bodies verbatim, url fields as the encoding of their string             *)
(* conversion), and a remote rejection of it yields an ordinary error      *)
(* envelope; except that search_nodes, get_temporal_graph and find_path    *)
(* issue no request and answer "Error: URI malformed" when the string      *)
(* conversion of a field they url-encode is malformed.                     *)
(***************************************************************************)
C21_MistypedForwardedUnlessUnencodable ==
    /\ \A inv \in Invocations : Dispatched(inv) =>
          IF Unencodable(inv)
          THEN inv.requests = <<>>
          ELSE /\ Len(inv.requests) = 1
               /\ CarriesArguments(inv, inv.requests[1])
    /\ (Completed /\ Dispatched(response) /\ Unencodable(response)) =>
          response.outcome = Returned(ErrorEnvelope("Error: URI malformed"))
    /\ RejectionIsOrdinaryError

C21_Witness ==
    /\ RemoteRejected
    /\ response.name = "create_entities"
    /\ response.args = Obj([entities |-> Str("Person1")])
    /\ response.requests[1].body = Obj([entities |-> Str("Person1")])
    /\ IsErrorResult(response.outcome)
    /\ \E other \in Suspensions :
          /\ other.name = "search_nodes"
          /\ IsEmptyObject(other.args)
          /\ HasParam(other.requests[1], "query", "undefined")

(***************************************************************************)
(* C22.  Every call-tool response, success or error, has content made of   *)
(* exactly one item with type "text" and a text that is a string; also for *)
(* check_health and read_graph when the 2xx body carries no data field.    *)
(* Fails: response.data.data is then undefined, JSON.stringify(undefined)  *)
(* is undefined, and the item's text is undefined, not a string.           *)
(***************************************************************************)
C22_ContentIsOneTextString ==
    (Completed /\ response.outcome.kind = "result") =>
        /\ Len(response.outcome.result.content) = 1
        /\ response.outcome.result.content[1].type = "text"
        /\ response.outcome.result.content[1].text.t = "string"

(***************************************************************************)
(* C23.  Every error envelope the Dispatcher returns has the text          *)
(* "Error: " followed by the failure's message; every failure that reaches *)
(* the Dispatcher's catch is an Error, so the fallback branch with the     *)
(* unprefixed text "An unknown error occurred" is never taken.             *)
(***************************************************************************)
ErrorEnvelopeReturned ==
    /\ Completed
    /\ response.outcome.kind = "result"
    /\ "isError" \in DOMAIN response.outcome.result

\* The message of the failure that ended the completed invocation.
FailureMessage ==
    IF response.name \notin ToolNames THEN "Unknown tool: " \o response.name
    ELSE IF response.reply = NoReply THEN OtherFailure.error.message
    ELSE IF response.reply.kind = "failed" THEN response.reply.message
    ELSE IF IsHttpFailure(response.reply) THEN RejectionMessage(response.reply)
    ELSE OtherFailure.error.message

C23_ErrorTextPrefixed ==
    ErrorEnvelopeReturned =>
        /\ response.outcome = Returned(ErrorEnvelope("Error: " \o FailureMessage))
        /\ response.outcome.result.content[1].text # Str("An unknown error occurred")

C23_Witness ==
    /\ ErrorEnvelopeReturned
    /\ response.name = "get_patterns"
    /\ response.reply.kind = "response"
    /\ response.reply.status = 500
    /\ response.outcome.result.content[1].text = Str("Error: Request failed with status code 500")

(***************************************************************************)
(* C24.  For delete_entities, delete_observations and delete_relations,    *)
(* whenever the HTTP request completes with a 2xx status the response is   *)
(* the tool's fixed success text without isError, whatever the body of the *)
(* remote response is (a body with success:false included).                *)
(***************************************************************************)
DeleteTools == {"delete_entities", "delete_observations", "delete_relations"}

FixedSuccessText(name) ==
    CASE name = "delete_entities"     -> "Entities deleted successfully"
      [] name = "delete_observations" -> "Observations deleted successfully"
      [] name = "delete_relations"    -> "Relations deleted successfully"

DeleteAnswered2xx ==
    /\ Completed
    /\ response.name \in DeleteTools
    /\ response.reply.kind = "response"
    /\ response.reply.status \in 200..299

C24_DeleteSuccessIgnoresBody ==
    DeleteAnswered2xx =>
        /\ response.outcome =
              Returned([content |-> TextContent(Str(FixedSuccessText(response.name)))])
        /\ "isError" \notin DOMAIN response.outcome.result

C24_Witness ==
    /\ DeleteAnswered2xx
    /\ response.name = "delete_relations"
    /\ Prop(response.reply.data, "success") = Bool(FALSE)
    /\ response.outcome.result.content[1].text = Str("Relations deleted successfully")

(***************************************************************************)
(* C25.  The absent-argument check comes before the tool name is examined: *)
(* a call with an unregistered name and no argument object fails with the  *)
(* failure "No arguments provided for tool: <name>" and never with         *)
(* "Unknown tool: <name>".                                                 *)
(***************************************************************************)
UnknownToolWithoutArguments ==
    /\ Completed
    /\ response.name \notin ToolNames
    /\ ~Truthy(response.args)

C25_ArgumentCheckComesFirst ==
    UnknownToolWithoutArguments =>
        /\ response.outcome.kind = "rejected"
        /\ response.outcome.error.message = "No arguments provided for tool: " \o response.name
        /\ response.outcome # Returned(ErrorEnvelope("Error: Unknown tool: " \o response.name))
        /\ response.requests = <<>>

C25_Witness ==
    /\ UnknownToolWithoutArguments
    /\ response.name = "drop_database"
    /\ response.args = Undefined
    /\ response.outcome.error.message = "No arguments provided for tool: drop_database"

====
